---- MODULE Spec2Model ----
(***************************************************************************)
(* kubectl-podview: the pod analyzer (pkg/analyzer, ECI variant), the      *)
(* printer (pkg/printer) and the run of the command (cmd) as a state       *)
(* machine.  A pod list is fetched, AnalyzePods folds it into an           *)
(* AnalysisResult, the printer writes the table, the summary and the       *)
(* recommendations.  Go strings are TLA+ strings; the node name, which is  *)
(* lower-cased, is a sequence of one-character strings.  A Go pointer is a *)
(* sequence of length 0 (nil) or 1.  Time is counted in whole seconds.     *)
(***************************************************************************)
EXTENDS Integers, Sequences, FiniteSets, TLC

VARIABLES
    pods,           \* pods.Items handed to AnalyzePods
    checkConfig,    \* the --check-config flag
    now,            \* the wall clock read by time.Since
    result,         \* the *AnalysisResult: Nil before AnalyzePods returns
    pc,             \* position of the run: "start" | "connected" | "fetched" |
                    \* "analyzed" | "tabled" | "summarized" | "returned" | "exited"
    namespace,      \* the --namespace flag
    allNamespaces,  \* the --all-namespaces flag
    showAll,        \* the --all flag
    out,            \* the lines written to standard output
    err,            \* the error runPodView returns: Nil or a pointer to its text
    exitStatus,       \* the exit code of the process: Nil while it runs
    calls           \* the calls runPodView has made, in order

vars ==
    <<pods, checkConfig, now, result, pc, namespace, allNamespaces, showAll, out, err,
      exitStatus, calls>>

----------------------------------------------------------------------------
(* Go values *)

Nil == <<>>
Ptr(v) == <<v>>

\* int32 arithmetic wraps (totalRestarts, result.TotalRestarts); no intermediate
\* value leaves the int32 range
MaxInt32 == 2147483647

Add32(a, b) ==
    IF a > 0 /\ b > 0 /\ a > MaxInt32 - b
    THEN (a - MaxInt32 - 1) + (b - MaxInt32 - 1)
    ELSE IF a < 0 /\ b < 0 /\ a < (-MaxInt32 - 1) - b
    THEN (a + MaxInt32 + 1) + (b + MaxInt32 + 1)
    ELSE a + b

\* Go's integer conversion of a float and its % both truncate toward zero
Quot(a, b) == IF a >= 0 THEN a \div b ELSE -((-a) \div b)
Rem(a, b) == a - b * Quot(a, b)

\* corev1.PodPhase
PodPending == "Pending"
PodRunning == "Running"
PodSucceeded == "Succeeded"
PodFailed == "Failed"
PodUnknown == "Unknown"

\* corev1.PodConditionType, corev1.ConditionStatus
PodScheduled == "PodScheduled"
PodReady == "Ready"
ConditionTrue == "True"
ConditionFalse == "False"

StatusHealthy == "Healthy"
StatusWarning == "Warning"
StatusError == "Error"
StatusPending == "Pending"
StatusUnknown == "Unknown"

IssueMissingRequests == "Missing resource requests"
IssueMissingLimits == "Missing resource limits"
IssueNoProbe == "Missing health probe"

ECIPodAnnotation == "k8s.aliyun.com/eci-instance-id"
ECINodeNamePrefix ==
    <<"v", "i", "r", "t", "u", "a", "l", "-", "k", "u", "b", "e", "l", "e", "t">>
eciAnnotations ==
    <<"k8s.aliyun.com/eci-instance-spec", "k8s.aliyun.com/eci-use-specs",
      "alibabacloud.com/eci">>

RestartThreshold == 10

----------------------------------------------------------------------------
(* strings.ToLower, strings.Contains, strings.Join *)

UpperLetters ==
    <<"A", "B", "C", "D", "E", "F", "G", "H", "I", "J", "K", "L", "M",
      "N", "O", "P", "Q", "R", "S", "T", "U", "V", "W", "X", "Y", "Z">>
LowerLetters ==
    <<"a", "b", "c", "d", "e", "f", "g", "h", "i", "j", "k", "l", "m",
      "n", "o", "p", "q", "r", "s", "t", "u", "v", "w", "x", "y", "z">>

ToLowerChar(c) ==
    IF \E i \in 1..Len(UpperLetters) : UpperLetters[i] = c
    THEN LowerLetters[CHOOSE i \in 1..Len(UpperLetters) : UpperLetters[i] = c]
    ELSE c

ToLower(s) == [i \in 1..Len(s) |-> ToLowerChar(s[i])]

Contains(s, substr) ==
    \E i \in 0..(Len(s) - Len(substr)) : SubSeq(s, i + 1, i + Len(substr)) = substr

RECURSIVE Join(_, _)
Join(elems, sep) ==
    IF Len(elems) = 0 THEN ""
    ELSE IF Len(elems) = 1 THEN elems[1]
    ELSE elems[1] \o sep \o Join(Tail(elems), sep)

\* the first of the indices a loop with an early return or break stops at, 0 when
\* it runs to the end
FirstIndex(indices) ==
    IF indices = {} THEN 0 ELSE CHOOSE i \in indices : \A j \in indices : i <= j

----------------------------------------------------------------------------
(* pkg/analyzer *)

formatAge(t) ==
    LET duration == now - t
        days == Quot(duration, 86400)
        hours == Rem(Quot(duration, 3600), 24)
        minutes == Rem(Quot(duration, 60), 60)
    IN  IF days > 0 THEN ToString(days) \o "d" \o ToString(hours) \o "h"
        ELSE IF hours > 0 THEN ToString(hours) \o "h" \o ToString(minutes) \o "m"
        ELSE IF minutes > 0 THEN ToString(minutes) \o "m"
        ELSE ToString(duration) \o "s"

\* the append without the search
appendAlways(slice, item) == Append(slice, item)

appendIfNotExists(slice, item) ==
    IF \E i \in 1..Len(slice) : slice[i] = item THEN slice ELSE Append(slice, item)

\* the instance-id annotation counted as soon as its key is present
detectECIEmptyCounts(pod) ==
    IF ECIPodAnnotation \in DOMAIN pod.Annotations
    THEN [IsECI |-> TRUE, ECIInstanceID |-> pod.Annotations[ECIPodAnnotation]]
    ELSE IF Contains(ToLower(pod.Spec.NodeName), ECINodeNamePrefix)
    THEN [IsECI |-> TRUE, ECIInstanceID |-> ""]
    ELSE IF \E i \in 1..Len(eciAnnotations) : eciAnnotations[i] \in DOMAIN pod.Annotations
    THEN [IsECI |-> TRUE, ECIInstanceID |-> ""]
    ELSE [IsECI |-> FALSE, ECIInstanceID |-> ""]

\* the node name searched without lower-casing it
detectECICaseSensitive(pod) ==
    IF /\ ECIPodAnnotation \in DOMAIN pod.Annotations
       /\ pod.Annotations[ECIPodAnnotation] # ""
    THEN [IsECI |-> TRUE, ECIInstanceID |-> pod.Annotations[ECIPodAnnotation]]
    ELSE IF Contains(pod.Spec.NodeName, ECINodeNamePrefix)
    THEN [IsECI |-> TRUE, ECIInstanceID |-> ""]
    ELSE IF \E i \in 1..Len(eciAnnotations) : eciAnnotations[i] \in DOMAIN pod.Annotations
    THEN [IsECI |-> TRUE, ECIInstanceID |-> ""]
    ELSE [IsECI |-> FALSE, ECIInstanceID |-> ""]

detectECI(pod) ==
    IF /\ ECIPodAnnotation \in DOMAIN pod.Annotations
       /\ pod.Annotations[ECIPodAnnotation] # ""
    THEN [IsECI |-> TRUE, ECIInstanceID |-> pod.Annotations[ECIPodAnnotation]]
    ELSE IF Contains(ToLower(pod.Spec.NodeName), ECINodeNamePrefix)
    THEN [IsECI |-> TRUE, ECIInstanceID |-> ""]
    ELSE IF \E i \in 1..Len(eciAnnotations) : eciAnnotations[i] \in DOMAIN pod.Annotations
    THEN [IsECI |-> TRUE, ECIInstanceID |-> ""]
    ELSE [IsECI |-> FALSE, ECIInstanceID |-> ""]

\* the loop over ContainerStatuses: earliestStart after the entries from i on
RECURSIVE earliestStartFrom(_, _, _)
earliestStartFrom(statuses, i, earliestStart) ==
    IF i > Len(statuses) THEN earliestStart
    ELSE LET cs == statuses[i]
         IN  IF /\ cs.State.Running # Nil
                /\ \/ earliestStart = Nil
                   \/ cs.State.Running[1].StartedAt < earliestStart[1]
             THEN earliestStartFrom(statuses, i + 1, Ptr(cs.State.Running[1].StartedAt))
             ELSE earliestStartFrom(statuses, i + 1, earliestStart)

\* the Ready condition taken whatever its status is
calculateRunningTimeAnyReady(pod) ==
    IF pod.Status.Phase # PodRunning THEN "-"
    ELSE LET fromContainers == earliestStartFrom(pod.Status.ContainerStatuses, 1, Nil)
             IsReady(cond) == cond.Type = PodReady
             c ==
                 FirstIndex({x \in 1..Len(pod.Status.Conditions) :
                                IsReady(pod.Status.Conditions[x])})
             earliestStart ==
                 IF fromContainers # Nil THEN fromContainers
                 ELSE IF c # 0 THEN Ptr(pod.Status.Conditions[c].LastTransitionTime)
                 ELSE Nil
         IN  IF earliestStart = Nil THEN formatAge(pod.CreationTimestamp)
             ELSE formatAge(earliestStart[1])

calculateRunningTime(pod) ==
    IF pod.Status.Phase # PodRunning THEN "-"
    ELSE LET fromContainers == earliestStartFrom(pod.Status.ContainerStatuses, 1, Nil)
             IsReady(cond) == cond.Type = PodReady /\ cond.Status = ConditionTrue
             c ==
                 FirstIndex({x \in 1..Len(pod.Status.Conditions) :
                                IsReady(pod.Status.Conditions[x])})
             earliestStart ==
                 IF fromContainers # Nil THEN fromContainers
                 ELSE IF c # 0 THEN Ptr(pod.Status.Conditions[c].LastTransitionTime)
                 ELSE Nil
         IN  IF earliestStart = Nil THEN formatAge(pod.CreationTimestamp)
             ELSE formatAge(earliestStart[1])

analyzeContainer(container, pod, index, cfg) ==
    LET SameName(cs) == cs.Name = container.Name
        k ==
            FirstIndex({x \in 1..Len(pod.Status.ContainerStatuses) :
                           SameName(pod.Status.ContainerStatuses[x])})
        cs == pod.Status.ContainerStatuses[k]
        resources == container.Resources
    IN  [Name |-> container.Name,
         Ready |-> IF k # 0 THEN cs.Ready ELSE FALSE,
         RestartCount |-> IF k # 0 THEN cs.RestartCount ELSE 0,
         LastTermination |->
             IF k # 0 /\ cs.LastTerminationState.Terminated # Nil
             THEN LET term == cs.LastTerminationState.Terminated[1]
                  IN  term.Reason \o " (exit: " \o ToString(term.ExitCode) \o ")"
             ELSE "",
         HasRequests |-> IF cfg THEN Cardinality(resources.Requests) > 0 ELSE FALSE,
         HasLimits |-> IF cfg THEN Cardinality(resources.Limits) > 0 ELSE FALSE,
         HasProbe |-> IF cfg THEN container.LivenessProbe # Nil \/ container.ReadinessProbe # Nil
                      ELSE FALSE]

getPendingReason(pod) ==
    LET Unschedulable(cond) == cond.Type = PodScheduled /\ cond.Status = ConditionFalse
        IsWaiting(cs) == cs.State.Waiting # Nil
        WaitingOrRunning(cs) == cs.State.Waiting # Nil \/ cs.State.Running # Nil
        c ==
            FirstIndex({x \in 1..Len(pod.Status.Conditions) :
                           Unschedulable(pod.Status.Conditions[x])})
        w ==
            FirstIndex({x \in 1..Len(pod.Status.ContainerStatuses) :
                           IsWaiting(pod.Status.ContainerStatuses[x])})
        n ==
            FirstIndex({x \in 1..Len(pod.Status.InitContainerStatuses) :
                           WaitingOrRunning(pod.Status.InitContainerStatuses[x])})
    IN  IF c # 0 THEN "Unschedulable: " \o pod.Status.Conditions[c].Message
        ELSE IF w # 0 THEN pod.Status.ContainerStatuses[w].State.Waiting[1].Reason
        ELSE IF n # 0
        THEN LET cs == pod.Status.InitContainerStatuses[n]
             IN  IF cs.State.Waiting # Nil THEN "Init:" \o cs.State.Waiting[1].Reason
                 ELSE "Init:" \o cs.Name \o " running"
        ELSE "Pending"

\* the loop without its early return: the last terminated container wins
getFailedReasonLastTerminated(pod) ==
    LET IsTerminated(cs) == cs.State.Terminated # Nil
        ks == {k \in 1..Len(pod.Status.ContainerStatuses) :
                  IsTerminated(pod.Status.ContainerStatuses[k])}
    IN  IF pod.Status.Reason # "" THEN pod.Status.Reason
        ELSE IF ks # {}
        THEN LET k == CHOOSE x \in ks : \A y \in ks : y <= x
                 term == pod.Status.ContainerStatuses[k].State.Terminated[1]
             IN  term.Reason \o " (exit: " \o ToString(term.ExitCode) \o ")"
        ELSE "Failed"

getFailedReason(pod) ==
    LET IsTerminated(cs) == cs.State.Terminated # Nil
        k ==
            FirstIndex({x \in 1..Len(pod.Status.ContainerStatuses) :
                           IsTerminated(pod.Status.ContainerStatuses[x])})
    IN  IF pod.Status.Reason # "" THEN pod.Status.Reason
        ELSE IF k # 0
        THEN LET term == pod.Status.ContainerStatuses[k].State.Terminated[1]
             IN  term.Reason \o " (exit: " \o ToString(term.ExitCode) \o ")"
        ELSE "Failed"

\* the loop giving every not-ready entry a reason, "NotReady" when it has no other
RECURSIVE notReadyReasonsFromEveryEntry(_, _, _)
notReadyReasonsFromEveryEntry(statuses, i, reasons) ==
    IF i > Len(statuses) THEN reasons
    ELSE LET cs == statuses[i]
         IN  IF ~cs.Ready /\ cs.State.Waiting # Nil /\ cs.State.Waiting[1].Reason # ""
             THEN notReadyReasonsFromEveryEntry(statuses, i + 1,
                                                Append(reasons, cs.State.Waiting[1].Reason))
             ELSE IF ~cs.Ready
             THEN notReadyReasonsFromEveryEntry(statuses, i + 1, Append(reasons, "NotReady"))
             ELSE notReadyReasonsFromEveryEntry(statuses, i + 1, reasons)

\* the loop of getNotReadyReason: reasons after the entries from i on
RECURSIVE notReadyReasonsFrom(_, _, _)
notReadyReasonsFrom(statuses, i, reasons) ==
    IF i > Len(statuses) THEN reasons
    ELSE LET cs == statuses[i]
         IN  IF ~cs.Ready /\ cs.State.Waiting # Nil /\ cs.State.Waiting[1].Reason # ""
             THEN notReadyReasonsFrom(statuses, i + 1,
                                      Append(reasons, cs.State.Waiting[1].Reason))
             ELSE IF ~cs.Ready /\ cs.State.Running # Nil
             THEN notReadyReasonsFrom(statuses, i + 1, Append(reasons, "NotReady"))
             ELSE notReadyReasonsFrom(statuses, i + 1, reasons)

getNotReadyReason(pod) ==
    LET reasons == notReadyReasonsFrom(pod.Status.ContainerStatuses, 1, <<>>)
    IN  IF Len(reasons) > 0 THEN Join(reasons, ", ") ELSE "Containers not ready"

\* the restart check moved in front of the phase switch
determinePodStatusRestartsFirst(pod, readyCount, totalCount, restarts) ==
    LET HasWaitingReason(cs) == cs.State.Waiting # Nil /\ cs.State.Waiting[1].Reason # ""
        w ==
            FirstIndex({x \in 1..Len(pod.Status.ContainerStatuses) :
                           HasWaitingReason(pod.Status.ContainerStatuses[x])})
    IN  IF restarts > RestartThreshold
        THEN [Status |-> StatusWarning,
              Reason |-> "High restart count: " \o ToString(restarts)]
        ELSE IF pod.Status.Phase = PodPending
        THEN [Status |-> StatusPending, Reason |-> getPendingReason(pod)]
        ELSE IF pod.Status.Phase = PodFailed
        THEN [Status |-> StatusError, Reason |-> getFailedReason(pod)]
        ELSE IF pod.Status.Phase = PodUnknown
        THEN [Status |-> StatusUnknown, Reason |-> "Pod status unknown"]
        ELSE IF readyCount < totalCount
        THEN [Status |-> StatusWarning, Reason |-> getNotReadyReason(pod)]
        ELSE IF w # 0
        THEN [Status |-> StatusWarning,
              Reason |-> pod.Status.ContainerStatuses[w].State.Waiting[1].Reason]
        ELSE [Status |-> StatusHealthy, Reason |-> ""]

\* the phase switch with a default case: a phase it does not name is Unknown
determinePodStatusDefaultUnknown(pod, readyCount, totalCount, restarts) ==
    LET HasWaitingReason(cs) == cs.State.Waiting # Nil /\ cs.State.Waiting[1].Reason # ""
        w ==
            FirstIndex({x \in 1..Len(pod.Status.ContainerStatuses) :
                           HasWaitingReason(pod.Status.ContainerStatuses[x])})
    IN  IF pod.Status.Phase = PodPending
        THEN [Status |-> StatusPending, Reason |-> getPendingReason(pod)]
        ELSE IF pod.Status.Phase = PodFailed
        THEN [Status |-> StatusError, Reason |-> getFailedReason(pod)]
        ELSE IF pod.Status.Phase \notin {PodRunning, PodSucceeded}
        THEN [Status |-> StatusUnknown, Reason |-> "Pod status unknown"]
        ELSE IF readyCount < totalCount
        THEN [Status |-> StatusWarning, Reason |-> getNotReadyReason(pod)]
        ELSE IF restarts > RestartThreshold
        THEN [Status |-> StatusWarning,
              Reason |-> "High restart count: " \o ToString(restarts)]
        ELSE IF w # 0
        THEN [Status |-> StatusWarning,
              Reason |-> pod.Status.ContainerStatuses[w].State.Waiting[1].Reason]
        ELSE [Status |-> StatusHealthy, Reason |-> ""]

\* the restart check written with >= instead of >
determinePodStatusAtThreshold(pod, readyCount, totalCount, restarts) ==
    LET HasWaitingReason(cs) == cs.State.Waiting # Nil /\ cs.State.Waiting[1].Reason # ""
        w ==
            FirstIndex({x \in 1..Len(pod.Status.ContainerStatuses) :
                           HasWaitingReason(pod.Status.ContainerStatuses[x])})
    IN  IF pod.Status.Phase = PodPending
        THEN [Status |-> StatusPending, Reason |-> getPendingReason(pod)]
        ELSE IF pod.Status.Phase = PodFailed
        THEN [Status |-> StatusError, Reason |-> getFailedReason(pod)]
        ELSE IF pod.Status.Phase = PodUnknown
        THEN [Status |-> StatusUnknown, Reason |-> "Pod status unknown"]
        ELSE IF readyCount < totalCount
        THEN [Status |-> StatusWarning, Reason |-> getNotReadyReason(pod)]
        ELSE IF restarts >= RestartThreshold
        THEN [Status |-> StatusWarning,
              Reason |-> "High restart count: " \o ToString(restarts)]
        ELSE IF w # 0
        THEN [Status |-> StatusWarning,
              Reason |-> pod.Status.ContainerStatuses[w].State.Waiting[1].Reason]
        ELSE [Status |-> StatusHealthy, Reason |-> ""]

\* the waiting-state check moved in front of the restart check
determinePodStatusWaitingFirst(pod, readyCount, totalCount, restarts) ==
    LET HasWaitingReason(cs) == cs.State.Waiting # Nil /\ cs.State.Waiting[1].Reason # ""
        w ==
            FirstIndex({x \in 1..Len(pod.Status.ContainerStatuses) :
                           HasWaitingReason(pod.Status.ContainerStatuses[x])})
    IN  IF pod.Status.Phase = PodPending
        THEN [Status |-> StatusPending, Reason |-> getPendingReason(pod)]
        ELSE IF pod.Status.Phase = PodFailed
        THEN [Status |-> StatusError, Reason |-> getFailedReason(pod)]
        ELSE IF pod.Status.Phase = PodUnknown
        THEN [Status |-> StatusUnknown, Reason |-> "Pod status unknown"]
        ELSE IF readyCount < totalCount
        THEN [Status |-> StatusWarning, Reason |-> getNotReadyReason(pod)]
        ELSE IF w # 0
        THEN [Status |-> StatusWarning,
              Reason |-> pod.Status.ContainerStatuses[w].State.Waiting[1].Reason]
        ELSE IF restarts > RestartThreshold
        THEN [Status |-> StatusWarning,
              Reason |-> "High restart count: " \o ToString(restarts)]
        ELSE [Status |-> StatusHealthy, Reason |-> ""]

determinePodStatus(pod, readyCount, totalCount, restarts) ==
    LET HasWaitingReason(cs) == cs.State.Waiting # Nil /\ cs.State.Waiting[1].Reason # ""
        w ==
            FirstIndex({x \in 1..Len(pod.Status.ContainerStatuses) :
                           HasWaitingReason(pod.Status.ContainerStatuses[x])})
    IN  IF pod.Status.Phase = PodPending
        THEN [Status |-> StatusPending, Reason |-> getPendingReason(pod)]
        ELSE IF pod.Status.Phase = PodFailed
        THEN [Status |-> StatusError, Reason |-> getFailedReason(pod)]
        ELSE IF pod.Status.Phase = PodUnknown
        THEN [Status |-> StatusUnknown, Reason |-> "Pod status unknown"]
        ELSE IF readyCount < totalCount
        THEN [Status |-> StatusWarning, Reason |-> getNotReadyReason(pod)]
        ELSE IF restarts > RestartThreshold
        THEN [Status |-> StatusWarning,
              Reason |-> "High restart count: " \o ToString(restarts)]
        ELSE IF w # 0
        THEN [Status |-> StatusWarning,
              Reason |-> pod.Status.ContainerStatuses[w].State.Waiting[1].Reason]
        ELSE [Status |-> StatusHealthy, Reason |-> ""]

\* the body of the loop over pod.Spec.Containers: the configuration issues
collectConfigIssues(issues, containerAnalysis, cfg) ==
    IF ~cfg THEN issues
    ELSE LET a == IF ~containerAnalysis.HasRequests
                  THEN appendIfNotExists(issues, IssueMissingRequests) ELSE issues
             b == IF ~containerAnalysis.HasLimits
                  THEN appendIfNotExists(a, IssueMissingLimits) ELSE a
         IN  IF ~containerAnalysis.HasProbe
             THEN appendIfNotExists(b, IssueNoProbe) ELSE b

\* the ready count taken from every ready status entry of the container's name
RECURSIVE containerLoopCountsStatuses(_, _, _, _)
containerLoopCountsStatuses(pod, cfg, i, acc) ==
    IF i > Len(pod.Spec.Containers) THEN acc
    ELSE LET containerAnalysis == analyzeContainer(pod.Spec.Containers[i], pod, i - 1, cfg)
             readyEntries ==
                 {k \in 1..Len(pod.Status.ContainerStatuses) :
                     /\ pod.Status.ContainerStatuses[k].Name = pod.Spec.Containers[i].Name
                     /\ pod.Status.ContainerStatuses[k].Ready}
         IN  containerLoopCountsStatuses(pod, cfg, i + 1,
                 [ContainerInfo |-> Append(acc.ContainerInfo, containerAnalysis),
                  readyCount |-> acc.readyCount + Cardinality(readyEntries),
                  totalRestarts |-> Add32(acc.totalRestarts, containerAnalysis.RestartCount),
                  ConfigIssues |-> collectConfigIssues(acc.ConfigIssues, containerAnalysis, cfg)])

\* the loop over pod.Spec.Containers, from container i on
RECURSIVE containerLoop(_, _, _, _)
containerLoop(pod, cfg, i, acc) ==
    IF i > Len(pod.Spec.Containers) THEN acc
    ELSE LET containerAnalysis == analyzeContainer(pod.Spec.Containers[i], pod, i - 1, cfg)
         IN  containerLoop(pod, cfg, i + 1,
                 [ContainerInfo |-> Append(acc.ContainerInfo, containerAnalysis),
                  readyCount |-> IF containerAnalysis.Ready THEN acc.readyCount + 1
                                 ELSE acc.readyCount,
                  totalRestarts |-> Add32(acc.totalRestarts, containerAnalysis.RestartCount),
                  ConfigIssues |-> collectConfigIssues(acc.ConfigIssues, containerAnalysis, cfg)])

analyzeSinglePod(pod, cfg) ==
    LET eci == detectECI(pod)
        totalCount == Len(pod.Spec.Containers)
        loop == containerLoop(pod, cfg, 1,
                    [ContainerInfo |-> <<>>, readyCount |-> 0, totalRestarts |-> 0,
                     ConfigIssues |-> <<>>])
        st == determinePodStatus(pod, loop.readyCount, totalCount, loop.totalRestarts)
    IN  [Name |-> pod.Name,
         Namespace |-> pod.Namespace,
         Phase |-> pod.Status.Phase,
         Age |-> formatAge(pod.CreationTimestamp),
         NodeName |-> pod.Spec.NodeName,
         IsECI |-> eci.IsECI,
         ECIInstanceID |-> eci.ECIInstanceID,
         RunningTime |-> calculateRunningTime(pod),
         ContainerInfo |-> loop.ContainerInfo,
         ConfigIssues |-> loop.ConfigIssues,
         Ready |-> ToString(loop.readyCount) \o "/" \o ToString(totalCount),
         Restarts |-> loop.totalRestarts,
         Status |-> st.Status,
         Reason |-> st.Reason]

\* the loop counting the pods that have an issue instead of the issues
RECURSIVE podLoopCountsPodsWithIssues(_, _, _, _)
podLoopCountsPodsWithIssues(items, cfg, i, res) ==
    IF i > Len(items) THEN res
    ELSE LET analysis == analyzeSinglePod(items[i], cfg)
         IN  podLoopCountsPodsWithIssues(items, cfg, i + 1,
                 [res EXCEPT
                     !.Pods = Append(@, analysis),
                     !.TotalRestarts = Add32(@, analysis.Restarts),
                     !.ECIPodCount = IF analysis.IsECI THEN @ + 1 ELSE @,
                     !.HealthyPods = IF analysis.Status = StatusHealthy THEN @ + 1 ELSE @,
                     !.WarningPods = IF analysis.Status = StatusWarning THEN @ + 1 ELSE @,
                     !.ErrorPods = IF analysis.Status = StatusError THEN @ + 1 ELSE @,
                     !.PendingPods = IF analysis.Status = StatusPending THEN @ + 1 ELSE @,
                     !.ConfigIssueCount =
                         IF Len(analysis.ConfigIssues) > 0 THEN @ + 1 ELSE @])

\* the loop of AnalyzePods, from pod i on
RECURSIVE podLoop(_, _, _, _)
podLoop(items, cfg, i, res) ==
    IF i > Len(items) THEN res
    ELSE LET analysis == analyzeSinglePod(items[i], cfg)
         IN  podLoop(items, cfg, i + 1,
                 [res EXCEPT
                     !.Pods = Append(@, analysis),
                     !.TotalRestarts = Add32(@, analysis.Restarts),
                     !.ECIPodCount = IF analysis.IsECI THEN @ + 1 ELSE @,
                     !.HealthyPods = IF analysis.Status = StatusHealthy THEN @ + 1 ELSE @,
                     !.WarningPods = IF analysis.Status = StatusWarning THEN @ + 1 ELSE @,
                     !.ErrorPods = IF analysis.Status = StatusError THEN @ + 1 ELSE @,
                     !.PendingPods = IF analysis.Status = StatusPending THEN @ + 1 ELSE @,
                     !.ConfigIssueCount = @ + Len(analysis.ConfigIssues)])

AnalyzePods(items, cfg) ==
    podLoop(items, cfg, 1,
        [Pods |-> <<>>, TotalPods |-> Len(items), HealthyPods |-> 0, WarningPods |-> 0,
         ErrorPods |-> 0, PendingPods |-> 0, TotalRestarts |-> 0, ConfigIssueCount |-> 0,
         ECIPodCount |-> 0])

\* pending pods counted as an issue too
HasIssuesCountsPending(r) ==
    r.ErrorPods > 0 \/ r.WarningPods > 0 \/ r.ConfigIssueCount > 0 \/ r.PendingPods > 0

HasIssues(r) == r.ErrorPods > 0 \/ r.WarningPods > 0 \/ r.ConfigIssueCount > 0

----------------------------------------------------------------------------
(* pkg/printer *)

\* a printed line: the function that printed it, what it is, and its texts.  Colours
\* are written by name and pictographs as ASCII stand-ins; the columns of fixed width
\* are left unpadded.
Line(by, kind, args) == [by |-> by, kind |-> kind, args |-> args]

RECURSIVE Repeat(_, _)
Repeat(s, count) ==
    IF count <= 0 THEN ""
    ELSE LET half == Repeat(s, count \div 2)
         IN  half \o half \o (IF count % 2 = 1 THEN s ELSE "")

\* %-<width>s
PadRight(s, width) == s \o Repeat(" ", width - Len(s))

MaxOf(numbers) == CHOOSE n \in numbers : \A m \in numbers : m <= n

getStatusColor(status) ==
    IF status = StatusHealthy THEN "green"
    ELSE IF status = StatusWarning THEN "yellow"
    ELSE IF status = StatusError THEN "red"
    ELSE IF status = StatusPending THEN "blue"
    ELSE "reset"

getStatusIcon(status) ==
    IF status = StatusHealthy THEN "v "
    ELSE IF status = StatusWarning THEN "! "
    ELSE IF status = StatusError THEN "x "
    ELSE IF status = StatusPending THEN "o "
    ELSE "? "

printPodRowDynamic(pod, showNamespace, maxNsLen, maxNameLen) ==
    LET eciMark == IF pod.IsECI THEN "ECI" ELSE "-"
        configMark == IF Len(pod.ConfigIssues) > 0 THEN " *" ELSE ""
        displayName ==
            IF Len(pod.Name) > maxNameLen
            THEN SubSeq(pod.Name, 1, maxNameLen - 3) \o "..."
            ELSE pod.Name
        displayNs ==
            IF Len(pod.Namespace) > maxNsLen
            THEN SubSeq(pod.Namespace, 1, maxNsLen - 3) \o "..."
            ELSE pod.Namespace
        columns ==
            <<PadRight(displayName, maxNameLen), getStatusColor(pod.Status),
              getStatusIcon(pod.Status) \o pod.Status, pod.Ready, ToString(pod.Restarts),
              pod.Age, pod.RunningTime, eciMark, pod.Reason, configMark>>
    IN  <<Line("PrintPodTable", "row",
               IF showNamespace THEN <<PadRight(displayNs, maxNsLen)>> \o columns
               ELSE columns)>>
        \o [k \in 1..Len(pod.ConfigIssues) |->
               Line("PrintPodTable", "issue", <<pod.ConfigIssues[k]>>)]

\* the rows of the pods from i on
RECURSIVE rowsFrom(_, _, _, _, _)
rowsFrom(shown, i, showNamespace, maxNsLen, maxNameLen) ==
    IF i > Len(shown) THEN <<>>
    ELSE printPodRowDynamic(shown[i], showNamespace, maxNsLen, maxNameLen)
         \o rowsFrom(shown, i + 1, showNamespace, maxNsLen, maxNameLen)

\* the filter with the configuration issues left out
podsToShowWithoutIssues(res, showAllFlag) ==
    LET Show(pod) == showAllFlag \/ pod.Status # StatusHealthy
    IN  SelectSeq(res.Pods, Show)

podsToShow(res, showAllFlag) ==
    LET Show(pod) == showAllFlag \/ pod.Status # StatusHealthy \/ Len(pod.ConfigIssues) > 0
    IN  SelectSeq(res.Pods, Show)

PrintPodTable(res, showAllFlag, showNamespace) ==
    LET shown == podsToShow(res, showAllFlag)
        longestName == MaxOf({Len("NAME")} \cup {Len(shown[i].Name) : i \in 1..Len(shown)})
        longestNs ==
            MaxOf({Len("NAMESPACE")}
                  \cup IF showNamespace
                       THEN {Len(shown[i].Namespace) : i \in 1..Len(shown)}
                       ELSE {})
        maxNameLen == IF longestName > 60 THEN 60 ELSE longestName
        maxNsLen == IF longestNs > 25 THEN 25 ELSE longestNs
        titles == <<PadRight("NAME", maxNameLen), "STATUS", "READY", "RESTARTS", "AGE",
                    "RUNNING", "ECI", "REASON">>
        separator == IF showNamespace THEN maxNsLen + maxNameLen + 80 ELSE maxNameLen + 75
    IN  IF Len(shown) = 0
        THEN <<Line("PrintPodTable", "all-healthy", <<"  All pods are healthy!">>),
               Line("PrintPodTable", "blank", <<>>)>>
        ELSE <<Line("PrintPodTable", "header",
                    IF showNamespace THEN <<PadRight("NAMESPACE", maxNsLen)>> \o titles
                    ELSE titles),
               Line("PrintPodTable", "separator", <<Repeat("-", separator)>>)>>
             \o rowsFrom(shown, 1, showNamespace, maxNsLen, maxNameLen)
             \o <<Line("PrintPodTable", "blank", <<>>)>>

\* %.1f of count / total * 100
Percentage(count, total) ==
    LET thousandths == count * 1000
        q == thousandths \div total
        twice == 2 * (thousandths % total)
        tenths == IF twice > total \/ (twice = total /\ q % 2 = 1) THEN q + 1 ELSE q
    IN  ToString(tenths \div 10) \o "." \o ToString(tenths % 10)

PrintSummary(res) ==
    LET Counter(label, value) ==
            IF value > 0 THEN <<Line("PrintSummary", label, <<ToString(value)>>)>> ELSE <<>>
    IN  <<Line("PrintSummary", "title", <<"Summary">>),
          Line("PrintSummary", "separator", <<Repeat("-", 40)>>),
          Line("PrintSummary", "Total Pods", <<ToString(res.TotalPods)>>)>>
        \o Counter("Healthy", res.HealthyPods)
        \o Counter("Pending", res.PendingPods)
        \o Counter("Warning", res.WarningPods)
        \o Counter("Error", res.ErrorPods)
        \o <<Line("PrintSummary", "Total Restarts", <<ToString(res.TotalRestarts)>>)>>
        \o (IF res.ECIPodCount > 0
            THEN <<Line("PrintSummary", "ECI Pods",
                        <<ToString(res.ECIPodCount),
                          Percentage(res.ECIPodCount, res.TotalPods)>>)>>
            ELSE <<>>)
        \o Counter("Config Issues", res.ConfigIssueCount)
        \o <<Line("PrintSummary", "blank", <<>>)>>

\* the keys of the recommendations map after the loop over res.Pods
recommendations(res) ==
    LET ForStatus(pod) ==
            IF pod.Status = StatusError
            THEN {"Check pod events: kubectl describe pod " \o pod.Name}
            ELSE IF pod.Status = StatusPending
            THEN (IF Contains(pod.Reason, "Unschedulable")
                  THEN {"Check node resources and taints"} ELSE {})
                 \cup (IF Contains(pod.Reason, "ImagePull")
                       THEN {"Verify image name and pull secrets"} ELSE {})
            ELSE IF pod.Status = StatusWarning
            THEN (IF pod.Restarts > 10
                  THEN {"Investigate high restart count - check logs: kubectl logs "
                        \o pod.Name \o " --previous"}
                  ELSE {})
                 \cup (IF Contains(pod.Reason, "CrashLoopBackOff")
                       THEN {"Container keeps crashing - check application logs and resource limits"}
                       ELSE {})
            ELSE {}
        ForIssue(issue) ==
            IF issue = IssueMissingRequests
            THEN {"Set resource requests to enable proper scheduling"}
            ELSE IF issue = IssueMissingLimits
            THEN {"Set resource limits to prevent resource exhaustion"}
            ELSE IF issue = IssueNoProbe
            THEN {"Add liveness/readiness probes for better health checking"}
            ELSE {}
    IN  UNION {ForStatus(res.Pods[i])
                   \cup UNION {ForIssue(res.Pods[i].ConfigIssues[k]) :
                                  k \in 1..Len(res.Pods[i].ConfigIssues)} :
               i \in 1..Len(res.Pods)}

\* the orders a range over the map can take: Go leaves the order unspecified
IterationOrders(keys) ==
    {order \in [1..Cardinality(keys) -> keys] : \A key \in keys : \E i \in DOMAIN order : order[i] = key}

\* order is the order the range over the map takes
PrintRecommendations(res, order) ==
    <<Line("PrintRecommendations", "title", <<"Recommendations">>),
      Line("PrintRecommendations", "separator", <<Repeat("-", 40)>>)>>
    \o (IF Len(order) = 0
        THEN <<Line("PrintRecommendations", "none", <<"  No specific recommendations">>)>>
        ELSE [k \in 1..Len(order) |-> Line("PrintRecommendations", "bullet", <<order[k]>>)])
    \o <<Line("PrintRecommendations", "blank", <<>>)>>

----------------------------------------------------------------------------
(* corev1 values the analyzer reads *)

NoState == [Waiting |-> Nil, Running |-> Nil, Terminated |-> Nil]
WaitingState(reason) == [NoState EXCEPT !.Waiting = Ptr([Reason |-> reason])]
RunningState(startedAt) == [NoState EXCEPT !.Running = Ptr([StartedAt |-> startedAt])]
TerminatedState(reason, exitCode) ==
    [NoState EXCEPT !.Terminated = Ptr([Reason |-> reason, ExitCode |-> exitCode])]

ContainerStatus(name, ready, restartCount, state) ==
    [Name |-> name, Ready |-> ready, RestartCount |-> restartCount, State |-> state,
     LastTerminationState |-> IF restartCount > 0 THEN TerminatedState("Error", 1)
                              ELSE NoState]

Container(name, requests, limits, liveness, readiness) ==
    [Name |-> name, Resources |-> [Requests |-> requests, Limits |-> limits],
     LivenessProbe |-> liveness, ReadinessProbe |-> readiness]

PodCondition(type, status, message, lastTransitionTime) ==
    [Type |-> type, Status |-> status, Message |-> message,
     LastTransitionTime |-> lastTransitionTime]

----------------------------------------------------------------------------
(* bounded inputs *)

MaxContainers == 2     \* containers in a pod spec
MaxStatuses == 2       \* entries of pod.Status.ContainerStatuses
MaxConditions == 1     \* entries of pod.Status.Conditions
MaxInitStatuses == 1   \* entries of pod.Status.InitContainerStatuses
MaxPods == 4           \* pods in a list of several pods
MaxDays == 2           \* whole days of a pod's age
ClockNow == 400000     \* the instant of the run, in seconds

SeqsUpTo(S, n) == UNION {[1..k -> S] : k \in 0..n}

Probe == Ptr([PeriodSeconds |-> 10])
NodeOrdinary == <<"n", "o", "d", "e", "-", "1">>
NodeVirtual ==
    <<"v", "i", "r", "t", "u", "a", "l", "-", "k", "u", "b", "e", "l", "e", "t",
      "-", "e", "a", "s", "t", "u", "s", "-", "1">>
NodeVirtualUpper ==
    <<"e", "c", "i", "-", "V", "i", "r", "t", "u", "a", "l", "-", "K", "U", "B", "E",
      "L", "E", "T">>
NodeNearMiss ==
    <<"v", "i", "r", "t", "u", "a", "l", "-", "k", "u", "b", "e", "l", "e">>
NodeSplit ==
    <<"v", "i", "r", "t", "u", "a", "l", "_", "k", "u", "b", "e", "l", "e", "t">>
NodeNames == {<<>>, NodeOrdinary, NodeVirtual, NodeVirtualUpper, NodeNearMiss, NodeSplit}

NoAnnotations == [k \in {} |-> ""]
AnnotationValue(k) ==
    IF k = "k8s.aliyun.com/eci-instance-spec" THEN "ecs.c6.large"
    ELSE IF k = "alibabacloud.com/eci" THEN "true"
    ELSE ""
AuxAnnotationKeys == {eciAnnotations[i] : i \in 1..Len(eciAnnotations)}
OtherAnnotationKeys == {"app.kubernetes.io/name"}
\* every annotation map: the instance id absent, empty or set, next to any other keys
AnnotationMaps ==
    {[k \in K |-> AnnotationValue(k)] : K \in SUBSET (AuxAnnotationKeys \cup OtherAnnotationKeys)}
    \cup
    {[k \in K \cup {ECIPodAnnotation} |->
         IF k = ECIPodAnnotation THEN id ELSE AnnotationValue(k)] :
       K \in SUBSET (AuxAnnotationKeys \cup OtherAnnotationKeys),
       id \in {"", "eci-2ze1a2b3c4"}}

PlainContainer(name) == Container(name, {"cpu"}, {"cpu"}, Probe, Nil)
ContainerNames == {"app", "sidecar"}

BasePod ==
    [Name |-> "web-0", Namespace |-> "default", Annotations |-> NoAnnotations,
     CreationTimestamp |-> ClockNow - 7200,
     Spec |-> [NodeName |-> NodeOrdinary, Containers |-> <<PlainContainer("app")>>],
     Status |-> [Phase |-> PodRunning, Reason |-> "", Conditions |-> <<>>,
                 ContainerStatuses |-> <<>>, InitContainerStatuses |-> <<>>]]

ContainerLists == {<<PlainContainer("app")>>, <<PlainContainer("app"), PlainContainer("sidecar")>>}

\* Pending pods: conditions, container states and init containers vary
PendingStatuses ==
    {ContainerStatus("app", FALSE, 0, NoState),
     ContainerStatus("app", FALSE, 0, WaitingState("")),
     ContainerStatus("app", FALSE, 0, WaitingState("ContainerCreating")),
     ContainerStatus("sidecar", TRUE, 11, RunningState(ClockNow - 60)),
     ContainerStatus("app", TRUE, 11, WaitingState("ImagePullBackOff"))}
PendingConditions ==
    {PodCondition(PodScheduled, ConditionFalse, "0/3 nodes are available", ClockNow - 30),
     PodCondition(PodScheduled, ConditionTrue, "", ClockNow - 30),
     PodCondition(PodReady, ConditionFalse, "containers not ready", ClockNow - 30)}
InitStatuses ==
    {ContainerStatus("init-db", FALSE, 0, WaitingState("PodInitializing")),
     ContainerStatus("init-db", FALSE, 0, RunningState(ClockNow - 10)),
     ContainerStatus("init-db", FALSE, 0, TerminatedState("Completed", 0))}
PendingInput ==
    \E cl \in ContainerLists, cd \in SeqsUpTo(PendingConditions, MaxConditions),
       st \in SeqsUpTo(PendingStatuses, MaxStatuses),
       ini \in SeqsUpTo(InitStatuses, MaxInitStatuses) :
        /\ pods = <<[BasePod EXCEPT !.Spec.Containers = cl, !.Status.Phase = PodPending,
                                    !.Status.Conditions = cd,
                                    !.Status.ContainerStatuses = st,
                                    !.Status.InitContainerStatuses = ini]>>
        /\ checkConfig = FALSE

\* Failed pods: the pod-level reason and the terminated containers vary
FailedStatuses ==
    {ContainerStatus("app", FALSE, 0, NoState),
     ContainerStatus("app", FALSE, 3, TerminatedState("Error", 1)),
     ContainerStatus("sidecar", FALSE, 0, TerminatedState("OOMKilled", 137)),
     ContainerStatus("app", FALSE, 12, WaitingState("CrashLoopBackOff")),
     ContainerStatus("sidecar", TRUE, 11, RunningState(ClockNow - 60))}
FailedInput ==
    \E cl \in ContainerLists, rs \in {"", "Evicted"},
       st \in SeqsUpTo(FailedStatuses, MaxStatuses) :
        /\ pods = <<[BasePod EXCEPT !.Spec.Containers = cl, !.Status.Phase = PodFailed,
                                    !.Status.Reason = rs,
                                    !.Status.ContainerStatuses = st]>>
        /\ checkConfig = FALSE

\* Running pods: the spec's containers and the status entries vary independently
RunningStatuses ==
    {ContainerStatus(n, s[1], s[2], s[3]) :
       n \in ContainerNames,
       s \in {<<TRUE, 0, RunningState(ClockNow - 3600)>>,
              <<TRUE, 5, RunningState(ClockNow - 600)>>,
              <<TRUE, 6, RunningState(ClockNow - 60)>>,
              <<FALSE, 0, RunningState(ClockNow - 5)>>,
              <<FALSE, 5, WaitingState("CrashLoopBackOff")>>,
              <<TRUE, 5, WaitingState("CrashLoopBackOff")>>,
              <<TRUE, 0, WaitingState("ImagePullBackOff")>>,
              <<FALSE, 0, WaitingState("")>>,
              <<FALSE, 1, TerminatedState("Error", 1)>>}}
RunningInput ==
    \E names \in SeqsUpTo(ContainerNames, MaxContainers),
       st \in SeqsUpTo(RunningStatuses, MaxStatuses) :
        /\ pods = <<[BasePod EXCEPT
                         !.Spec.Containers =
                             [i \in DOMAIN names |-> PlainContainer(names[i])],
                         !.Status.ContainerStatuses = st]>>
        /\ checkConfig = FALSE

\* the other phases, among them the empty one and one Kubernetes does not define
OtherPhases == {PodSucceeded, PodUnknown, "", "Terminating"}
OtherPhaseStatuses ==
    {ContainerStatus("app", TRUE, 0, RunningState(ClockNow - 60)),
     ContainerStatus("app", FALSE, 0, TerminatedState("Completed", 0)),
     ContainerStatus("app", TRUE, 11, RunningState(ClockNow - 60)),
     ContainerStatus("sidecar", TRUE, 0, WaitingState("CrashLoopBackOff"))}
OtherPhaseInput ==
    \E cl \in ContainerLists, ph \in OtherPhases,
       st \in SeqsUpTo(OtherPhaseStatuses, MaxStatuses) :
        /\ pods = <<[BasePod EXCEPT !.Spec.Containers = cl, !.Status.Phase = ph,
                                    !.Status.ContainerStatuses = st]>>
        /\ checkConfig = FALSE

\* restart counts around the threshold and at the end of int32
RestartCounts == {0, RestartThreshold - 1, RestartThreshold, RestartThreshold + 1, MaxInt32}
RestartInput ==
    \E r1 \in RestartCounts, r2 \in RestartCounts,
       st \in {RunningState(ClockNow - 60), WaitingState("CrashLoopBackOff")} :
        /\ pods = <<[BasePod EXCEPT
                         !.Spec.Containers =
                             <<PlainContainer("app"), PlainContainer("sidecar")>>,
                         !.Status.ContainerStatuses =
                             <<ContainerStatus("app", TRUE, r1, RunningState(ClockNow - 60)),
                               ContainerStatus("sidecar", TRUE, r2, st)>>]>>
        /\ checkConfig = FALSE

\* resource requests, limits and probes vary per container
ConfigContainers ==
    {Container(n, rq, lm, pr[1], pr[2]) :
       n \in {"app"}, rq \in {{}, {"cpu", "memory"}}, lm \in {{}, {"memory"}},
       pr \in {<<Nil, Nil>>, <<Probe, Nil>>, <<Nil, Probe>>}}
ConfigInput ==
    \E cl \in SeqsUpTo(ConfigContainers, MaxContainers), c \in BOOLEAN :
        /\ pods = <<[BasePod EXCEPT
                         !.Spec.Containers = cl,
                         !.Status.ContainerStatuses =
                             <<ContainerStatus("app", TRUE, 0, RunningState(ClockNow - 60))>>]>>
        /\ checkConfig = c

\* annotations and node names vary
ECIInput ==
    \E an \in AnnotationMaps, nn \in NodeNames :
        /\ pods = <<[BasePod EXCEPT
                         !.Annotations = an, !.Spec.NodeName = nn,
                         !.Status.ContainerStatuses =
                             <<ContainerStatus("app", TRUE, 0, RunningState(ClockNow - 60))>>]>>
        /\ checkConfig = FALSE

\* creation timestamps vary: ages up to MaxDays days, and two in the future
Durations ==
    {d * 86400 + h * 3600 + m * 60 + s :
       d \in 0..MaxDays, h \in {0, 1, 23}, m \in {0, 1, 30, 59}, s \in {0, 1, 45, 59}}
    \cup {-5, -3700}
AgeInput ==
    \E d \in Durations :
        /\ pods = <<[BasePod EXCEPT !.CreationTimestamp = ClockNow - d,
                                    !.Status.Phase = PodPending]>>
        /\ checkConfig = FALSE

\* Running and other pods: where the start of running can be read from varies
StartStatuses ==
    {ContainerStatus("app", TRUE, 0, RunningState(ClockNow - 3600)),
     ContainerStatus("sidecar", TRUE, 0, RunningState(ClockNow - 600)),
     ContainerStatus("app", FALSE, 2, WaitingState("CrashLoopBackOff")),
     ContainerStatus("sidecar", FALSE, 1, TerminatedState("Error", 1))}
StartConditions ==
    {PodCondition(PodReady, ConditionTrue, "", ClockNow - 1800),
     PodCondition(PodReady, ConditionFalse, "containers not ready", ClockNow - 900),
     PodCondition(PodScheduled, ConditionTrue, "", ClockNow - 7000)}
RunningTimeInput ==
    \E ph \in {PodRunning, PodPending, PodSucceeded},
       cd \in SeqsUpTo(StartConditions, MaxConditions),
       st \in SeqsUpTo(StartStatuses, MaxStatuses) :
        /\ pods = <<[BasePod EXCEPT
                         !.Spec.Containers =
                             <<PlainContainer("app"), PlainContainer("sidecar")>>,
                         !.Status.Phase = ph,
                         !.Status.Conditions = cd,
                         !.Status.ContainerStatuses = st]>>
        /\ checkConfig = FALSE

\* lists of several pods, one of each classification and backend
SamplePods ==
    {[BasePod EXCEPT !.Name = "healthy-0",
                     !.Status.ContainerStatuses =
                         <<ContainerStatus("app", TRUE, 0, RunningState(ClockNow - 60))>>],
     [BasePod EXCEPT !.Name = "restarting-0", !.Namespace = "kube-system",
                     !.Spec.NodeName = NodeVirtual,
                     !.Spec.Containers = <<Container("app", {}, {}, Nil, Nil)>>,
                     !.Status.ContainerStatuses =
                         <<ContainerStatus("app", TRUE, 11, RunningState(ClockNow - 60))>>],
     [BasePod EXCEPT !.Name = "steady-0",
                     !.Status.ContainerStatuses =
                         <<ContainerStatus("app", TRUE, 10, RunningState(ClockNow - 60))>>],
     [BasePod EXCEPT !.Name = "flapping-0",
                     !.Status.ContainerStatuses =
                         <<ContainerStatus("app", TRUE, MaxInt32, RunningState(ClockNow - 60))>>],
     [BasePod EXCEPT !.Name = "failed-0", !.Status.Phase = PodFailed,
                     !.Status.Reason = "Evicted"],
     [BasePod EXCEPT !.Name = "pending-0", !.Status.Phase = PodPending,
                     !.Annotations = [k \in {ECIPodAnnotation} |-> "eci-2ze1a2b3c4"]],
     [BasePod EXCEPT !.Name = "unknown-0", !.Status.Phase = PodUnknown,
                     !.Annotations = [k \in {ECIPodAnnotation} |-> ""]]}
ListInput ==
    \E l \in SeqsUpTo(SamplePods, MaxPods), c \in BOOLEAN :
        /\ pods = l
        /\ checkConfig = c

----------------------------------------------------------------------------
(* the run *)

\* the lines runPodView itself prints
ConnectingLine == Line("runPodView", "connecting", <<"Connecting to cluster...">>)
FetchingLine ==
    Line("runPodView", "fetching",
         <<IF allNamespaces THEN "Fetching pods across all namespaces..."
           ELSE "Fetching pods in namespace '" \o namespace \o "'...">>)
NoPodsLine ==
    Line("runPodView", "no-pods",
         <<IF allNamespaces THEN "No pods found in the cluster"
           ELSE "No pods found in namespace '" \o namespace \o "'">>)
AnalyzingLines(count) ==
    <<Line("runPodView", "analyzing", <<"Analyzing " \o ToString(count) \o " pods...">>),
      Line("runPodView", "blank", <<>>)>>

\* the run at the call of AnalyzePods, for all the pods above
Init ==
    /\ \/ PendingInput
       \/ FailedInput
       \/ RunningInput
       \/ OtherPhaseInput
       \/ RestartInput
       \/ ConfigInput
       \/ ECIInput
       \/ AgeInput
       \/ RunningTimeInput
       \/ ListInput
    /\ now = ClockNow
    /\ result = Nil
    /\ namespace = "default"
    /\ allNamespaces = TRUE
    /\ showAll = FALSE
    /\ out = <<ConnectingLine, FetchingLine>> \o AnalyzingLines(Len(pods))
    /\ err = Nil
    /\ exitStatus = Nil
    /\ calls = <<"NewClient", "GetPods">>
    /\ pc = "fetched"

\* results := analyzer.AnalyzePods(pods, checkConfig)
Analyze ==
    /\ pc = "fetched"
    /\ result' = Ptr(AnalyzePods(pods, checkConfig))
    /\ calls' = Append(calls, "AnalyzePods")
    /\ pc' = "analyzed"
    /\ UNCHANGED <<pods, checkConfig, now, namespace, allNamespaces, showAll, out, err,
                   exitStatus>>

Next == Analyze

Spec == Init /\ [][Next]_vars

----------------------------------------------------------------------------
(* the whole run of the command *)

MaxListed == 2         \* pods the cluster returns

Namespaces == {"default", "kube-system"}
ClientErrors == {"invalid configuration: no configuration has been provided"}
ListErrors == {"context deadline exceeded", "pods is forbidden"}

LongName == "prometheus-operator-kube-state-metrics-exporter-7f9c5d6b8d-x2x7q"
LongNamespace == "observability-and-monitoring-stack"

\* the pods of the cluster: one of each kind of row and recommendation
RunPods ==
    {[BasePod EXCEPT !.Name = "web-0",
                     !.Status.ContainerStatuses =
                         <<ContainerStatus("app", TRUE, 0, RunningState(ClockNow - 60))>>],
     [BasePod EXCEPT !.Name = "worker-0",
                     !.Spec.Containers = <<Container("app", {}, {"cpu"}, Probe, Nil)>>,
                     !.Status.ContainerStatuses =
                         <<ContainerStatus("app", TRUE, 11, RunningState(ClockNow - 60))>>],
     [BasePod EXCEPT !.Name = "cache-0",
                     !.Status.ContainerStatuses =
                         <<ContainerStatus("app", FALSE, 5, WaitingState("CrashLoopBackOff"))>>],
     [BasePod EXCEPT !.Name = "slow-0",
                     !.Status.ContainerStatuses =
                         <<ContainerStatus("app", FALSE, 0, RunningState(ClockNow - 5))>>],
     [BasePod EXCEPT !.Name = "job-0", !.Status.Phase = PodFailed,
                     !.Status.Reason = "Evicted"],
     [BasePod EXCEPT !.Name = "db-0", !.Status.Phase = PodPending,
                     !.Status.Conditions =
                         <<PodCondition(PodScheduled, ConditionFalse,
                                        "0/3 nodes are available", ClockNow - 30)>>],
     [BasePod EXCEPT !.Name = "api-0", !.Status.Phase = PodPending,
                     !.Status.ContainerStatuses =
                         <<ContainerStatus("app", FALSE, 0, WaitingState("ImagePullBackOff"))>>],
     [BasePod EXCEPT !.Name = "lost-0", !.Status.Phase = PodUnknown],
     [BasePod EXCEPT !.Name = "coredns-0", !.Namespace = "kube-system",
                     !.Spec.NodeName = NodeVirtual,
                     !.Spec.Containers = <<Container("app", {"cpu"}, {"cpu"}, Nil, Nil)>>,
                     !.Status.ContainerStatuses =
                         <<ContainerStatus("app", TRUE, 0, RunningState(ClockNow - 60))>>],
     [BasePod EXCEPT !.Name = LongName, !.Namespace = LongNamespace,
                     !.Status.ContainerStatuses =
                         <<ContainerStatus("app", TRUE, 0, RunningState(ClockNow - 60))>>]}

\* the non-empty lists GetPods can return: pods of the queried namespace, each once
ClusterLists ==
    {l \in SeqsUpTo(RunPods, MaxListed) :
        /\ l # <<>>
        /\ \A i, j \in DOMAIN l : i # j => l[i].Name # l[j].Name
        /\ \A i \in DOMAIN l : allNamespaces \/ l[i].Namespace = namespace}

\* the command starts with its flags parsed
RunInit ==
    /\ namespace \in Namespaces
    /\ allNamespaces \in BOOLEAN
    /\ showAll \in BOOLEAN
    /\ checkConfig \in BOOLEAN
    /\ pods = <<>>
    /\ now = ClockNow
    /\ result = Nil
    /\ out = <<>>
    /\ err = Nil
    /\ exitStatus = Nil
    /\ calls = <<>>
    /\ pc = "start"

\* k8sClient, err := client.NewClient(kubeconfig), err == nil
NewClientSucceeds ==
    /\ pc = "start"
    /\ out' = Append(out, ConnectingLine)
    /\ calls' = Append(calls, "NewClient")
    /\ pc' = "connected"
    /\ UNCHANGED <<pods, checkConfig, now, result, namespace, allNamespaces, showAll, err,
                   exitStatus>>

\* client.NewClient fails: the error is wrapped and returned
NewClientFails ==
    /\ pc = "start"
    /\ \E cause \in ClientErrors :
           err' = Ptr("failed to create kubernetes client: " \o cause)
    /\ out' = Append(out, ConnectingLine)
    /\ calls' = Append(calls, "NewClient")
    /\ pc' = "returned"
    /\ UNCHANGED <<pods, checkConfig, now, result, namespace, allNamespaces, showAll,
                   exitStatus>>

\* the failed fetch taken for a fetch of a part of the list
GetPodsFailsAndGoesOn ==
    /\ pc = "connected"
    /\ \E cause \in ListErrors : err' = Ptr("failed to get pods: " \o cause)
    /\ \E l \in ClusterLists :
           /\ pods' = l
           /\ out' = Append(out, FetchingLine) \o AnalyzingLines(Len(l))
    /\ calls' = Append(calls, "GetPods")
    /\ pc' = "fetched"
    /\ UNCHANGED <<checkConfig, now, result, namespace, allNamespaces, showAll, exitStatus>>

\* k8sClient.GetPods fails: the error is wrapped and returned
GetPodsFails ==
    /\ pc = "connected"
    /\ \E cause \in ListErrors : err' = Ptr("failed to get pods: " \o cause)
    /\ out' = Append(out, FetchingLine)
    /\ calls' = Append(calls, "GetPods")
    /\ pc' = "returned"
    /\ UNCHANGED <<pods, checkConfig, now, result, namespace, allNamespaces, showAll,
                   exitStatus>>

\* the empty list handed on to the analyzer
GetPodsEmptyAndGoesOn ==
    /\ pc = "connected"
    /\ pods' = <<>>
    /\ out' = Append(out, FetchingLine) \o AnalyzingLines(0)
    /\ calls' = Append(calls, "GetPods")
    /\ pc' = "fetched"
    /\ UNCHANGED <<checkConfig, now, result, namespace, allNamespaces, showAll, err,
                   exitStatus>>

\* k8sClient.GetPods returns no pod: the message is printed and nil returned
GetPodsEmpty ==
    /\ pc = "connected"
    /\ pods' = <<>>
    /\ out' = out \o <<FetchingLine, NoPodsLine>>
    /\ calls' = Append(calls, "GetPods")
    /\ pc' = "returned"
    /\ UNCHANGED <<checkConfig, now, result, namespace, allNamespaces, showAll, err,
                   exitStatus>>

\* k8sClient.GetPods returns pods
GetPodsSucceeds ==
    /\ pc = "connected"
    /\ \E l \in ClusterLists :
           /\ pods' = l
           /\ out' = Append(out, FetchingLine) \o AnalyzingLines(Len(l))
    /\ calls' = Append(calls, "GetPods")
    /\ pc' = "fetched"
    /\ UNCHANGED <<checkConfig, now, result, namespace, allNamespaces, showAll, err,
                   exitStatus>>

\* p.PrintPodTable(results, showAll, allNamespaces)
StepPrintPodTable ==
    /\ pc = "analyzed"
    /\ out' = out \o PrintPodTable(result[1], showAll, allNamespaces)
    /\ calls' = Append(calls, "PrintPodTable")
    /\ pc' = "tabled"
    /\ UNCHANGED <<pods, checkConfig, now, result, namespace, allNamespaces, showAll, err,
                   exitStatus>>

\* p.PrintSummary(results)
StepPrintSummary ==
    /\ pc = "tabled"
    /\ out' = out \o PrintSummary(result[1])
    /\ calls' = Append(calls, "PrintSummary")
    /\ pc' = "summarized"
    /\ UNCHANGED <<pods, checkConfig, now, result, namespace, allNamespaces, showAll, err,
                   exitStatus>>

\* the recommendations printed as soon as a pod is not Healthy
StepPrintRecommendationsIfUnhealthy ==
    /\ pc = "summarized"
    /\ result[1].HealthyPods < result[1].TotalPods
    /\ \E order \in IterationOrders(recommendations(result[1])) :
           out' = out \o PrintRecommendations(result[1], order)
    /\ calls' = Append(calls, "PrintRecommendations")
    /\ pc' = "returned"
    /\ UNCHANGED <<pods, checkConfig, now, result, namespace, allNamespaces, showAll, err,
                   exitStatus>>

\* results.HasIssues(): p.PrintRecommendations(results), return nil
StepPrintRecommendations ==
    /\ pc = "summarized"
    /\ HasIssues(result[1])
    /\ \E order \in IterationOrders(recommendations(result[1])) :
           out' = out \o PrintRecommendations(result[1], order)
    /\ calls' = Append(calls, "PrintRecommendations")
    /\ pc' = "returned"
    /\ UNCHANGED <<pods, checkConfig, now, result, namespace, allNamespaces, showAll, err,
                   exitStatus>>

\* !results.HasIssues(): return nil
StepSkipRecommendations ==
    /\ pc = "summarized"
    /\ ~HasIssues(result[1])
    /\ pc' = "returned"
    /\ UNCHANGED <<pods, checkConfig, now, result, namespace, allNamespaces, showAll, out,
                   err, exitStatus, calls>>

\* main: os.Exit(1) when Execute returns an error, else the process ends with 0
Exit ==
    /\ pc = "returned"
    /\ exitStatus' = Ptr(IF err # Nil THEN 1 ELSE 0)
    /\ pc' = "exited"
    /\ UNCHANGED <<pods, checkConfig, now, result, namespace, allNamespaces, showAll, out,
                   err, calls>>

RunNext ==
    \/ NewClientSucceeds
    \/ NewClientFails
    \/ GetPodsFails
    \/ GetPodsEmpty
    \/ GetPodsSucceeds
    \/ Analyze
    \/ StepPrintPodTable
    \/ StepPrintSummary
    \/ StepPrintRecommendations
    \/ StepSkipRecommendations
    \/ Exit

RunSpec == RunInit /\ [][RunNext]_vars

----------------------------------------------------------------------------
(* properties of the analysis *)

Analyzed == pc = "analyzed"
Analysis(i) == result[1].Pods[i]

\* what a reader of the pod sees, without running the analyzer
HasWaitingReason(cs) == cs.State.Waiting # Nil /\ cs.State.Waiting[1].Reason # ""
AllCountedReady(i) ==
    \A j \in 1..Len(Analysis(i).ContainerInfo) : Analysis(i).ContainerInfo[j].Ready
SomeWaitingReason(pod) ==
    \E k \in 1..Len(pod.Status.ContainerStatuses) :
        HasWaitingReason(pod.Status.ContainerStatuses[k])

\* C1: a pod in phase Pending is classified Pending, whatever its restart count,
\* its ready containers, its containers' waiting states and its conditions are.
C1_PendingPhaseIsPending ==
    Analyzed =>
        \A i \in 1..Len(pods) :
            pods[i].Status.Phase = PodPending => Analysis(i).Status = StatusPending

\* a Pending pod all of whose containers are ready, with more than 10 restarts and a
\* container waiting with a reason, has been classified
C1_Witness ==
    /\ Analyzed
    /\ \E i \in 1..Len(pods) :
           /\ pods[i].Status.Phase = PodPending
           /\ Analysis(i).Restarts > RestartThreshold
           /\ Analysis(i).Ready = "1/1"
           /\ SomeWaitingReason(pods[i])
           /\ Analysis(i).Status = StatusPending

TerminatedAt(pod, k) == pod.Status.ContainerStatuses[k].State.Terminated # Nil
TerminationText(pod, k) ==
    LET term == pod.Status.ContainerStatuses[k].State.Terminated[1]
    IN  term.Reason \o " (exit: " \o ToString(term.ExitCode) \o ")"

\* C2: a pod in phase Failed is classified Error; its reason is the pod-level reason
\* when that is non-empty, otherwise "<reason> (exit: <code>)" of the first container
\* status (in list order) that is terminated, otherwise the literal "Failed".
C2_FailedPhaseIsError ==
    Analyzed =>
        \A i \in 1..Len(pods) :
            LET pod == pods[i]
                n == Len(pod.Status.ContainerStatuses)
            IN  pod.Status.Phase = PodFailed =>
                    /\ Analysis(i).Status = StatusError
                    /\ pod.Status.Reason # "" => Analysis(i).Reason = pod.Status.Reason
                    /\ pod.Status.Reason = "" =>
                           /\ \A k \in 1..n :
                                  /\ TerminatedAt(pod, k)
                                  /\ \A j \in 1..(k - 1) : ~TerminatedAt(pod, j)
                                  => Analysis(i).Reason = TerminationText(pod, k)
                           /\ (\A k \in 1..n : ~TerminatedAt(pod, k))
                                  => Analysis(i).Reason = "Failed"

\* a Failed pod without a pod-level reason and with two terminated containers of
\* different reasons has been given the reason of the first
C2_Witness ==
    /\ Analyzed
    /\ \E i \in 1..Len(pods) :
           /\ pods[i].Status.Phase = PodFailed
           /\ pods[i].Status.Reason = ""
           /\ Len(pods[i].Status.ContainerStatuses) = 2
           /\ TerminatedAt(pods[i], 1) /\ TerminatedAt(pods[i], 2)
           /\ TerminationText(pods[i], 1) # TerminationText(pods[i], 2)
           /\ Analysis(i).Reason = "OOMKilled (exit: 137)"

PodStatuses == {StatusHealthy, StatusWarning, StatusError, StatusPending, StatusUnknown}

\* C3: every status is one of the five values, and it is Unknown exactly for the
\* pods in phase Unknown, with the reason "Pod status unknown"; no other phase, the
\* empty one and an unrecognised one included, yields Unknown.
C3_UnknownOnlyFromUnknownPhase ==
    Analyzed =>
        \A i \in 1..Len(pods) :
            /\ Analysis(i).Status \in PodStatuses
            /\ Analysis(i).Status = StatusUnknown <=> pods[i].Status.Phase = PodUnknown
            /\ Analysis(i).Status = StatusUnknown
                   => Analysis(i).Reason = "Pod status unknown"

\* a pod in phase Unknown is classified Unknown although a container has more than
\* 10 restarts and another waits with a reason
C3_Witness ==
    /\ Analyzed
    /\ \E i \in 1..Len(pods) :
           /\ pods[i].Status.Phase = PodUnknown
           /\ Analysis(i).Restarts > RestartThreshold
           /\ SomeWaitingReason(pods[i])
           /\ Analysis(i).Status = StatusUnknown
           /\ Analysis(i).Reason = "Pod status unknown"

\* C4: the restart threshold is strictly greater than 10: a Running pod with all
\* containers ready and N > 10 total restarts is Warning with the reason "High
\* restart count: N"; with exactly 10 and no container waiting with a reason it is
\* Healthy with an empty reason.  N is the int32 total the analysis reports.
C4_RestartThresholdIsStrict ==
    Analyzed =>
        \A i \in 1..Len(pods) :
            pods[i].Status.Phase = PodRunning /\ AllCountedReady(i) =>
                /\ Analysis(i).Restarts > 10 =>
                       /\ Analysis(i).Status = StatusWarning
                       /\ Analysis(i).Reason =
                              "High restart count: " \o ToString(Analysis(i).Restarts)
                /\ Analysis(i).Restarts = 10 /\ ~SomeWaitingReason(pods[i]) =>
                       /\ Analysis(i).Status = StatusHealthy
                       /\ Analysis(i).Reason = ""

\* one list holds a ready Running pod with 11 restarts, classified Warning, and one
\* with 10 restarts, classified Healthy
C4_Witness ==
    /\ Analyzed
    /\ \E i, j \in 1..Len(pods) :
           /\ pods[i].Status.Phase = PodRunning /\ pods[j].Status.Phase = PodRunning
           /\ AllCountedReady(i) /\ AllCountedReady(j)
           /\ Analysis(i).Restarts = 11
           /\ Analysis(i).Status = StatusWarning
           /\ Analysis(i).Reason = "High restart count: 11"
           /\ Analysis(j).Restarts = 10
           /\ Analysis(j).Status = StatusHealthy

\* the number of containers of the pod's spec the analysis counts as ready
CountedReady(i) ==
    Cardinality({j \in 1..Len(Analysis(i).ContainerInfo) : Analysis(i).ContainerInfo[j].Ready})

\* the rule (1..7) of the decision list that is the first to apply to pod i
FirstRule(i) ==
    LET pod == pods[i]
    IN  IF pod.Status.Phase = PodPending THEN 1
        ELSE IF pod.Status.Phase = PodFailed THEN 2
        ELSE IF pod.Status.Phase = PodUnknown THEN 3
        ELSE IF CountedReady(i) < Len(pod.Spec.Containers) THEN 4
        ELSE IF Analysis(i).Restarts > 10 THEN 5
        ELSE IF SomeWaitingReason(pod) THEN 6
        ELSE 7

\* C5: the rules are tried in the order Pending, Failed, Unknown, ready < total,
\* restarts > 10, a non-empty waiting reason, Healthy, and the status and reason are
\* those of the first rule whose condition holds.
C5_FirstMatchingRuleWins ==
    Analyzed =>
        \A i \in 1..Len(pods) :
            LET pod == pods[i]
                a == Analysis(i)
                r == FirstRule(i)
            IN  /\ r = 1 => a.Status = StatusPending /\ a.Reason = getPendingReason(pod)
                /\ r = 2 => a.Status = StatusError /\ a.Reason = getFailedReason(pod)
                /\ r = 3 => a.Status = StatusUnknown /\ a.Reason = "Pod status unknown"
                /\ r = 4 => a.Status = StatusWarning /\ a.Reason = getNotReadyReason(pod)
                /\ r = 5 => /\ a.Status = StatusWarning
                            /\ a.Reason = "High restart count: " \o ToString(a.Restarts)
                /\ r = 6 => /\ a.Status = StatusWarning
                            /\ \E k \in 1..Len(pod.Status.ContainerStatuses) :
                                   /\ HasWaitingReason(pod.Status.ContainerStatuses[k])
                                   /\ \A j \in 1..(k - 1) :
                                          ~HasWaitingReason(pod.Status.ContainerStatuses[j])
                                   /\ a.Reason =
                                          pod.Status.ContainerStatuses[k].State.Waiting[1].Reason
                /\ r = 7 => a.Status = StatusHealthy /\ a.Reason = ""

\* a pod with all containers ready, 11 restarts and a container status waiting with
\* a reason has been given the restart reason, not the waiting reason
C5_Witness ==
    /\ Analyzed
    /\ \E i \in 1..Len(pods) :
           /\ pods[i].Status.Phase = PodRunning
           /\ Len(pods[i].Spec.Containers) = 2
           /\ CountedReady(i) = 2
           /\ SomeWaitingReason(pods[i])
           /\ Analysis(i).Restarts = 11
           /\ Analysis(i).Reason = "High restart count: 11"

\* container j of pod i's spec counts as ready: the first status entry of its name
\* exists and is ready
SpecContainerReady(pod, j) ==
    \E k \in 1..Len(pod.Status.ContainerStatuses) :
        /\ pod.Status.ContainerStatuses[k].Name = pod.Spec.Containers[j].Name
        /\ pod.Status.ContainerStatuses[k].Ready
        /\ \A m \in 1..(k - 1) :
               pod.Status.ContainerStatuses[m].Name # pod.Spec.Containers[j].Name

\* C6: the Ready string is "r/t", t the number of containers of the pod spec and r
\* the number of them counted as ready, and r never exceeds t, whatever status
\* entries there are (missing, extra, several of one name).
C6_ReadyNeverExceedsTotal ==
    Analyzed =>
        \A i \in 1..Len(pods) :
            LET t == Len(pods[i].Spec.Containers)
                r == Cardinality({j \in 1..t : SpecContainerReady(pods[i], j)})
            IN  /\ Analysis(i).Ready = ToString(r) \o "/" \o ToString(t)
                /\ \E x \in 0..t : Analysis(i).Ready = ToString(x) \o "/" \o ToString(t)

\* a pod with one container and two ready status entries of that container's name
\* has been given "1/1"
C6_Witness ==
    /\ Analyzed
    /\ \E i \in 1..Len(pods) :
           LET st == pods[i].Status.ContainerStatuses
           IN  /\ Len(pods[i].Spec.Containers) = 1
               /\ Len(st) = 2
               /\ st[1].Ready /\ st[2].Ready
               /\ st[1].Name = pods[i].Spec.Containers[1].Name
               /\ st[2].Name = pods[i].Spec.Containers[1].Name
               /\ Analysis(i).Ready = "1/1"

\* container j of the pod lacks what the issue names
Lacks(container, issue) ==
    IF issue = IssueMissingRequests THEN container.Resources.Requests = {}
    ELSE IF issue = IssueMissingLimits THEN container.Resources.Limits = {}
    ELSE container.LivenessProbe = Nil /\ container.ReadinessProbe = Nil

ConfigIssueKinds == <<IssueMissingRequests, IssueMissingLimits, IssueNoProbe>>
KindRank(issue) == CHOOSE n \in 1..Len(ConfigIssueKinds) : ConfigIssueKinds[n] = issue

\* where the scan of the containers first meets the issue: container, then kind
FirstSeen(pod, issue) ==
    LET j == CHOOSE x \in 1..Len(pod.Spec.Containers) :
                 /\ Lacks(pod.Spec.Containers[x], issue)
                 /\ \A y \in 1..(x - 1) : ~Lacks(pod.Spec.Containers[y], issue)
    IN  j * (Len(ConfigIssueKinds) + 1) + KindRank(issue)

\* C7: with configuration-gap evaluation requested, ConfigIssues holds a kind iff at
\* least one container lacks it, each kind at most once, in the order first seen
\* while scanning the containers in spec order; without it ConfigIssues is empty.
C7_ConfigIssuesOncePerKind ==
    Analyzed =>
        \A i \in 1..Len(pods) :
            LET pod == pods[i]
                issues == Analysis(i).ConfigIssues
            IN  IF checkConfig
                THEN /\ \A n \in 1..Len(ConfigIssueKinds) :
                            (\E x \in 1..Len(issues) : issues[x] = ConfigIssueKinds[n])
                            <=> (\E j \in 1..Len(pod.Spec.Containers) :
                                     Lacks(pod.Spec.Containers[j], ConfigIssueKinds[n]))
                     /\ \A x, y \in 1..Len(issues) : x # y => issues[x] # issues[y]
                     /\ \A x, y \in 1..Len(issues) :
                            x < y => FirstSeen(pod, issues[x]) < FirstSeen(pod, issues[y])
                ELSE issues = <<>>

\* with evaluation requested, a pod of two containers, the first lacking only limits
\* and the second only requests, both with a probe, has been given exactly the two
\* kinds, limits first
C7_Witness ==
    /\ Analyzed
    /\ checkConfig
    /\ \E i \in 1..Len(pods) :
           LET cs == pods[i].Spec.Containers
           IN  /\ Len(cs) = 2
               /\ Lacks(cs[1], IssueMissingLimits) /\ ~Lacks(cs[1], IssueMissingRequests)
               /\ Lacks(cs[2], IssueMissingRequests) /\ ~Lacks(cs[2], IssueMissingLimits)
               /\ ~Lacks(cs[1], IssueNoProbe) /\ ~Lacks(cs[2], IssueNoProbe)
               /\ Analysis(i).ConfigIssues = <<IssueMissingLimits, IssueMissingRequests>>

\* the elapsed time since pod i was created
Elapsed(i) == now - pods[i].CreationTimestamp

\* the days, hours, minutes and seconds of a non-negative duration
AgeUnits(d) ==
    <<[value |-> d \div 86400, unit |-> "d"],
      [value |-> (d % 86400) \div 3600, unit |-> "h"],
      [value |-> (d % 3600) \div 60, unit |-> "m"],
      [value |-> d % 60, unit |-> "s"]>>

RECURSIVE RenderUnits(_)
RenderUnits(units) ==
    IF units = <<>> THEN ""
    ELSE ToString(Head(units).value) \o Head(units).unit \o RenderUnits(Tail(units))

\* the largest two non-zero units of a duration ("0s" when it has none)
LargestTwoNonZeroUnits(d) ==
    LET NonZero(u) == u.value # 0
        nz == SelectSeq(AgeUnits(d), NonZero)
    IN  IF nz = <<>> THEN "0s"
        ELSE RenderUnits(SubSeq(nz, 1, IF Len(nz) < 2 THEN Len(nz) ELSE 2))

\* C8: for every non-negative elapsed duration the age is rendered as the largest
\* two non-zero units among days, hours, minutes and seconds, never more than two.
C8_AgeIsLargestTwoNonZeroUnits ==
    Analyzed =>
        \A i \in 1..Len(pods) :
            Elapsed(i) >= 0 => Analysis(i).Age = LargestTwoNonZeroUnits(Elapsed(i))

\* the instance-id annotation of the pod is present and empty
EmptyInstanceID(pod) ==
    /\ ECIPodAnnotation \in DOMAIN pod.Annotations
    /\ pod.Annotations[ECIPodAnnotation] = ""
NonEmptyInstanceID(pod) ==
    /\ ECIPodAnnotation \in DOMAIN pod.Annotations
    /\ pod.Annotations[ECIPodAnnotation] # ""
\* the node names of the model that hold "virtual-kubelet" in some letter case
VirtualNodeNames == {NodeVirtual, NodeVirtualUpper}
OnVirtualNode(pod) == pod.Spec.NodeName \in VirtualNodeNames
HasAuxAnnotation(pod) == AuxAnnotationKeys \cap DOMAIN pod.Annotations # {}

\* C9 as stated: a pod whose instance-id annotation is present and empty is not
\* flagged as backend-hosted.
C9_EmptyInstanceIDNeverFlagged ==
    Analyzed =>
        \A i \in 1..Len(pods) : EmptyInstanceID(pods[i]) => ~Analysis(i).IsECI

\* C9 as amended: an empty instance-id annotation does not count as present: such a
\* pod is flagged only when its node name holds "virtual-kubelet" or it carries an
\* auxiliary annotation, and no instance id is captured for it.
C9_EmptyInstanceIDDoesNotCount ==
    Analyzed =>
        \A i \in 1..Len(pods) :
            EmptyInstanceID(pods[i]) =>
                /\ Analysis(i).IsECI
                       <=> (OnVirtualNode(pods[i]) \/ HasAuxAnnotation(pods[i]))
                /\ Analysis(i).ECIInstanceID = ""

\* a pod with an empty instance-id annotation, an ordinary node and no auxiliary
\* annotation has been analysed and is not flagged
C9_Witness ==
    /\ Analyzed
    /\ \E i \in 1..Len(pods) :
           /\ EmptyInstanceID(pods[i])
           /\ pods[i].Spec.NodeName = NodeOrdinary
           /\ ~HasAuxAnnotation(pods[i])
           /\ ~Analysis(i).IsECI

C11_HasIssuesIffErrorWarningOrConfig ==
    Analyzed =>
        LET r == result[1]
        IN  /\ HasIssues(r) <=>
                   (r.ErrorPods > 0 \/ r.WarningPods > 0 \/ r.ConfigIssueCount > 0)
            /\ (\A i \in 1..Len(r.Pods) :
                    /\ r.Pods[i].Status \in {StatusHealthy, StatusPending, StatusUnknown}
                    /\ r.Pods[i].ConfigIssues = <<>>)
                   => ~HasIssues(r)

\* a list with a Pending, an Unknown and a Healthy pod and no configuration issue has
\* been analysed, and the result has no issues
C11_Witness ==
    /\ Analyzed
    /\ \E i, j, k \in 1..Len(pods) :
           /\ Analysis(i).Status = StatusPending
           /\ Analysis(j).Status = StatusUnknown
           /\ Analysis(k).Status = StatusHealthy
    /\ \A i \in 1..Len(pods) :
           /\ Analysis(i).Status \in {StatusHealthy, StatusPending, StatusUnknown}
           /\ Analysis(i).ConfigIssues = <<>>
    /\ ~HasIssues(result[1])

\* the number of analyses of r with status s
WithStatus(r, s) == Cardinality({i \in 1..Len(r.Pods) : r.Pods[i].Status = s})

\* the int32 sum of the restart totals, and the sum of the sizes of the issue lists
RECURSIVE SumRestarts(_)
SumRestarts(analyses) ==
    IF analyses = <<>> THEN 0
    ELSE Add32(Head(analyses).Restarts, SumRestarts(Tail(analyses)))
RECURSIVE SumIssues(_)
SumIssues(analyses) ==
    IF analyses = <<>> THEN 0
    ELSE Len(Head(analyses).ConfigIssues) + SumIssues(Tail(analyses))

\* the counters of a result, without its pod list
Counts(r) == [f \in DOMAIN r \ {"Pods"} |-> r[f]]

\* the two permutations that generate all of them
Rotate(l) == IF l = <<>> THEN l ELSE Append(Tail(l), Head(l))
SwapFirstTwo(l) == IF Len(l) < 2 THEN l ELSE <<l[2], l[1]>> \o SubSeq(l, 3, Len(l))

\* C12: the counters of the result match the per-pod analyses: TotalPods is the length
\* of the list, each status counter is the number of pods of that status, TotalRestarts
\* is the (int32) sum of the pods' restart totals, ConfigIssueCount is the sum of the
\* sizes of the issue lists, and Pods holds the analysis of each input pod in input
\* order.  The counters are those of the rotated and of the swapped list as well; as
\* this holds for every list, it holds for every permutation.
C12_CountsMatchAnalyses ==
    Analyzed =>
        LET r == result[1]
        IN  /\ r.TotalPods = Len(pods)
            /\ Len(r.Pods) = Len(pods)
            /\ \A i \in 1..Len(pods) : r.Pods[i] = analyzeSinglePod(pods[i], checkConfig)
            /\ r.HealthyPods = WithStatus(r, StatusHealthy)
            /\ r.WarningPods = WithStatus(r, StatusWarning)
            /\ r.ErrorPods = WithStatus(r, StatusError)
            /\ r.PendingPods = WithStatus(r, StatusPending)
            /\ r.TotalRestarts = SumRestarts(r.Pods)
            /\ r.ConfigIssueCount = SumIssues(r.Pods)
            /\ Counts(AnalyzePods(Rotate(pods), checkConfig)) = Counts(r)
            /\ Counts(AnalyzePods(SwapFirstTwo(pods), checkConfig)) = Counts(r)

\* four pods, two Healthy, one Warning with three configuration issues and one
\* Pending, have been folded into the counts 2/1/0/1, and the result has issues
C12_Witness ==
    /\ Analyzed
    /\ Len(pods) = 4
    /\ result[1].HealthyPods = 2
    /\ result[1].WarningPods = 1
    /\ result[1].ErrorPods = 0
    /\ result[1].PendingPods = 1
    /\ result[1].ConfigIssueCount = 3
    /\ result[1].TotalRestarts = 21
    /\ Analysis(1).Status = StatusPending
    /\ Analysis(4).Status = StatusWarning
    /\ HasIssues(result[1])

\* pod i falls to the readiness rule: its phase is none of Pending, Failed and
\* Unknown, and fewer containers are counted ready than its spec has
NotAllReady(i) ==
    /\ pods[i].Status.Phase \notin {PodPending, PodFailed, PodUnknown}
    /\ CountedReady(i) < Len(pods[i].Spec.Containers)

\* an entry for every not-ready status: its waiting reason or else "NotReady"
RECURSIVE EntryPerNotReady(_)
EntryPerNotReady(statuses) ==
    IF statuses = <<>> THEN <<>>
    ELSE LET cs == Head(statuses)
         IN  IF cs.Ready THEN EntryPerNotReady(Tail(statuses))
             ELSE IF HasWaitingReason(cs)
             THEN <<cs.State.Waiting[1].Reason>> \o EntryPerNotReady(Tail(statuses))
             ELSE <<"NotReady">> \o EntryPerNotReady(Tail(statuses))

\* an entry for the not-ready statuses that wait with a reason or are running
RECURSIVE EntryPerWaitingOrRunning(_)
EntryPerWaitingOrRunning(statuses) ==
    IF statuses = <<>> THEN <<>>
    ELSE LET cs == Head(statuses)
         IN  IF ~cs.Ready /\ HasWaitingReason(cs)
             THEN <<cs.State.Waiting[1].Reason>> \o EntryPerWaitingOrRunning(Tail(statuses))
             ELSE IF ~cs.Ready /\ cs.State.Running # Nil
             THEN <<"NotReady">> \o EntryPerWaitingOrRunning(Tail(statuses))
             ELSE EntryPerWaitingOrRunning(Tail(statuses))

\* C16 as stated: a pod that falls to the readiness rule is Warning, and its reason
\* joins with ", " one entry per not-ready container status, in status order, the
\* waiting reason or else "NotReady"; it is "Containers not ready" only when there is
\* no not-ready status.
C16_OneEntryPerNotReadyContainer ==
    Analyzed =>
        \A i \in 1..Len(pods) :
            NotAllReady(i) =>
                LET entries == EntryPerNotReady(pods[i].Status.ContainerStatuses)
                IN  /\ Analysis(i).Status = StatusWarning
                    /\ Analysis(i).Reason =
                           IF entries # <<>> THEN Join(entries, ", ")
                           ELSE "Containers not ready"

\* C16: a pod that falls to the readiness rule is Warning, and its reason joins with
\* ", ", in status order, the non-empty waiting reason of each not-ready status that
\* has one and "NotReady" for each other not-ready status that is running; a not-ready
\* status that is terminated, waits without a reason or has no state adds no entry, and
\* the reason is "Containers not ready" exactly when no status adds one.
C16_EntryPerWaitingOrRunningStatus ==
    Analyzed =>
        \A i \in 1..Len(pods) :
            NotAllReady(i) =>
                LET entries == EntryPerWaitingOrRunning(pods[i].Status.ContainerStatuses)
                IN  /\ Analysis(i).Status = StatusWarning
                    /\ Analysis(i).Reason =
                           IF entries # <<>> THEN Join(entries, ", ")
                           ELSE "Containers not ready"
                    /\ Analysis(i).Reason = "Containers not ready" <=> entries = <<>>

\* a Running pod with a terminated and a waiting container, neither ready, has been
\* given the one reason of the waiting container
C16_Witness ==
    /\ Analyzed
    /\ \E i \in 1..Len(pods) :
           LET st == pods[i].Status.ContainerStatuses
           IN  /\ NotAllReady(i)
               /\ Len(pods[i].Spec.Containers) = 2
               /\ Len(st) = 2
               /\ st[1].Name # st[2].Name
               /\ ~st[1].Ready /\ st[1].State.Terminated # Nil
               /\ ~st[2].Ready /\ HasWaitingReason(st[2])
               /\ Analysis(i).Status = StatusWarning
               /\ Analysis(i).Reason = "CrashLoopBackOff"

\* C17: the reason of a Pending pod is the first available of: the message of an
\* unschedulable condition (PodScheduled = False), the waiting reason of a container,
\* an init-container note (its waiting reason, or that it is running), the literal
\* "Pending"; it is "Pending" exactly when none of the first three supplies a reason,
\* and it is never empty.
C17_PendingReasonFirstAvailable ==
    Analyzed =>
        \A i \in 1..Len(pods) :
            LET pod == pods[i]
                cd == pod.Status.Conditions
                st == pod.Status.ContainerStatuses
                ini == pod.Status.InitContainerStatuses
                c == FirstIndex({x \in 1..Len(cd) :
                                    cd[x].Type = PodScheduled /\ cd[x].Status = ConditionFalse})
                w == FirstIndex({x \in 1..Len(st) : HasWaitingReason(st[x])})
                n == FirstIndex({x \in 1..Len(ini) :
                                    ini[x].State.Waiting # Nil \/ ini[x].State.Running # Nil})
                expected ==
                    IF c # 0 THEN "Unschedulable: " \o cd[c].Message
                    ELSE IF w # 0 THEN st[w].State.Waiting[1].Reason
                    ELSE IF n # 0
                    THEN IF ini[n].State.Waiting # Nil
                         THEN "Init:" \o ini[n].State.Waiting[1].Reason
                         ELSE "Init:" \o ini[n].Name \o " running"
                    ELSE "Pending"
            IN  pod.Status.Phase = PodPending =>
                    /\ Analysis(i).Reason = expected
                    /\ Analysis(i).Reason = "Pending" <=> (c = 0 /\ w = 0 /\ n = 0)
                    /\ Analysis(i).Reason # ""

\* the timestamps the containers report as the start of running, and the least of a
\* set of timestamps
StartTimes(pod) ==
    {pod.Status.ContainerStatuses[k].State.Running[1].StartedAt :
       k \in {x \in 1..Len(pod.Status.ContainerStatuses) :
                 pod.Status.ContainerStatuses[x].State.Running # Nil}}
Earliest(times) == CHOOSE t \in times : \A u \in times : t <= u

----------------------------------------------------------------------------
(* properties of the run *)

\* the lines of the output that function f printed, in order
PrintedBy(f) ==
    LET By(line) == line.by = f
    IN  SelectSeq(out, By)
Called(f) == \E k \in DOMAIN calls : calls[k] = f
TimesCalled(f) == Cardinality({k \in DOMAIN calls : calls[k] = f})
Returned == pc \in {"returned", "exited"}
OfKind(lines, kind) ==
    LET Is(line) == line.kind = kind
    IN  SelectSeq(lines, Is)

\* pod i of the result is to be shown in the table
Qualifies(i) ==
    \/ showAll
    \/ Analysis(i).Status # StatusHealthy
    \/ Len(Analysis(i).ConfigIssues) > 0
\* the k-th least element of a set of numbers
NthOf(numbers, k) == CHOOSE n \in numbers : Cardinality({m \in numbers : m < n}) = k - 1
\* the text of a name column holds this name, cut to 60 characters if it is longer
ShowsName(text, name) ==
    IF Len(name) <= 60
    THEN /\ Len(text) >= Len(name)
         /\ SubSeq(text, 1, Len(name)) = name
         /\ \A k \in (Len(name) + 1)..Len(text) : SubSeq(text, k, k) = " "
    ELSE text = SubSeq(name, 1, 57) \o "..."

\* C13: PrintPodTable prints a row for a pod exactly when "show all" is set, the pod
\* is not Healthy or it has a configuration issue; the rows are in the order of
\* result.Pods; when no pod qualifies the table is the "All pods are healthy" line,
\* without header and rows.
C13_TableShowsQualifyingPods ==
    Called("PrintPodTable") =>
        LET table == PrintedBy("PrintPodTable")
            rows == OfKind(table, "row")
            shown == {i \in 1..Len(result[1].Pods) : Qualifies(i)}
            nameColumn == IF allNamespaces THEN 2 ELSE 1
        IN  /\ Len(rows) = Cardinality(shown)
            /\ \A k \in 1..Len(rows) :
                   LET pod == Analysis(NthOf(shown, k))
                   IN  /\ ShowsName(rows[k].args[nameColumn], pod.Name)
                       /\ rows[k].args[nameColumn + 2] = getStatusIcon(pod.Status) \o pod.Status
            /\ shown = {} =>
                   /\ Len(OfKind(table, "all-healthy")) = 1
                   /\ table[1].kind = "all-healthy"
                   /\ \A k \in DOMAIN table : table[k].kind \in {"all-healthy", "blank"}
            /\ shown # {} =>
                   /\ table[1].kind = "header"
                   /\ OfKind(table, "all-healthy") = <<>>

\* without "show all", of a Healthy pod without issues and a Healthy pod that lacks a
\* probe only the second has a row
C13_Witness ==
    /\ Called("PrintPodTable")
    /\ ~showAll
    /\ Len(pods) = 2
    /\ Analysis(1).Status = StatusHealthy /\ Analysis(1).ConfigIssues = <<>>
    /\ Analysis(2).Status = StatusHealthy /\ Analysis(2).ConfigIssues = <<IssueNoProbe>>
    /\ Len(OfKind(PrintedBy("PrintPodTable"), "row")) = 1
    /\ ShowsName(OfKind(PrintedBy("PrintPodTable"), "row")[1].args[2], "coredns-0")

ErrorTexts(prefix, causes) == {prefix \o ": " \o cause : cause \in causes}

\* C14: when the creation of the client or the fetch fails, runPodView returns the
\* error wrapped with the name of the failed step, the process exits with a code
\* other than 0, and the analyzer and the printer are never called; the analyzer is
\* called only after the fetch has returned the list without error, and analyses
\* all of it; the client is created and the list fetched at most once.
C14_NoPartialFailure ==
    /\ err # Nil =>
           /\ Returned
           /\ calls[Len(calls)] = "NewClient" =>
                  err[1] \in ErrorTexts("failed to create kubernetes client", ClientErrors)
           /\ calls[Len(calls)] = "GetPods" =>
                  err[1] \in ErrorTexts("failed to get pods", ListErrors)
           /\ calls \in {<<"NewClient">>, <<"NewClient", "GetPods">>}
           /\ result = Nil
           /\ \A k \in DOMAIN out : out[k].by = "runPodView"
           /\ pc = "exited" => exitStatus # Nil /\ exitStatus[1] # 0
    /\ Called("AnalyzePods") =>
           /\ err = Nil
           /\ SubSeq(calls, 1, 3) = <<"NewClient", "GetPods", "AnalyzePods">>
           /\ pods # <<>>
           /\ result[1].TotalPods = Len(pods)
           /\ Len(result[1].Pods) = Len(pods)
    /\ TimesCalled("NewClient") <= 1
    /\ TimesCalled("GetPods") <= 1

\* the fetch has failed and the process has exited with 1, nothing analysed or
\* printed but the two progress lines
C14_Witness ==
    /\ pc = "exited"
    /\ err = Ptr("failed to get pods: context deadline exceeded")
    /\ exitStatus = Ptr(1)
    /\ calls = <<"NewClient", "GetPods">>
    /\ result = Nil
    /\ Len(out) = 2

\* C15: when the fetch succeeds with an empty list, the run prints "No pods found"
\* with the namespace, or with the cluster when all namespaces were queried, calls
\* neither the analyzer nor the printer, and the process exits with 0.
C15_NoPodsIsNotAnError ==
    (Called("GetPods") /\ err = Nil /\ pods = <<>>) =>
        /\ Returned
        /\ calls = <<"NewClient", "GetPods">>
        /\ out[Len(out)].kind = "no-pods"
        /\ out[Len(out)].args =
               <<IF allNamespaces THEN "No pods found in the cluster"
                 ELSE "No pods found in namespace '" \o namespace \o "'">>
        /\ result = Nil
        /\ \A k \in DOMAIN out : out[k].by = "runPodView"
        /\ pc = "exited" => exitStatus = Ptr(0)

\* namespace kube-system held no pod: the message names it and the exit code is 0
C15_Witness ==
    /\ pc = "exited"
    /\ Called("GetPods") /\ err = Nil /\ pods = <<>>
    /\ ~allNamespaces /\ namespace = "kube-system"
    /\ out[Len(out)].args = <<"No pods found in namespace 'kube-system'">>
    /\ exitStatus = Ptr(0)

\* the place of a function's lines in the output
BlockRank(f) ==
    IF f = "runPodView" THEN 0
    ELSE IF f = "PrintPodTable" THEN 1
    ELSE IF f = "PrintSummary" THEN 2
    ELSE 3

\* C19: the output is the table, then the summary, then the recommendations; a run
\* that reaches the output stage prints the recommendations exactly when HasIssues()
\* holds, that is when a pod is Error or Warning or has a configuration issue; a run
\* whose pods are all Healthy, Pending or Unknown without configuration issues prints
\* no recommendations, whatever the reasons of the Pending pods are.
C19_TableSummaryThenRecommendations ==
    LET table == PrintedBy("PrintPodTable")
        summary == PrintedBy("PrintSummary")
        advice == PrintedBy("PrintRecommendations")
    IN  /\ \A j, k \in DOMAIN out : j < k => BlockRank(out[j].by) <= BlockRank(out[k].by)
        /\ advice # <<>> => summary # <<>>
        /\ summary # <<>> => table # <<>>
        /\ (Returned /\ result # Nil) =>
               /\ table # <<>>
               /\ summary # <<>>
               /\ advice # <<>> <=> HasIssues(result[1])
               /\ advice # <<>> <=>
                      \E i \in 1..Len(result[1].Pods) :
                          \/ Analysis(i).Status \in {StatusError, StatusWarning}
                          \/ Analysis(i).ConfigIssues # <<>>
               /\ (\A i \in 1..Len(result[1].Pods) :
                       /\ Analysis(i).Status \in {StatusHealthy, StatusPending, StatusUnknown}
                       /\ Analysis(i).ConfigIssues = <<>>)
                      => advice = <<>>

\* a run with an unschedulable Pending pod and one that cannot pull its image, for
\* both of which PrintRecommendations holds a suggestion, has ended with the table
\* and the summary and without recommendations
C19_Witness ==
    /\ pc = "exited"
    /\ result # Nil
    /\ Len(pods) = 2
    /\ Analysis(1).Status = StatusPending /\ Contains(Analysis(1).Reason, "Unschedulable")
    /\ Analysis(2).Status = StatusPending /\ Contains(Analysis(2).Reason, "ImagePull")
    /\ Cardinality(recommendations(result[1])) = 2
    /\ PrintedBy("PrintPodTable") # <<>>
    /\ PrintedBy("PrintSummary") # <<>>
    /\ PrintedBy("PrintRecommendations") = <<>>

====
